---- MODULE Spec2Model ----
(***************************************************************************)
(* Model of the VyOS configuration apply engine (server/vyos.ts) and of    *)
(* the /api/routers/apply and /api/routers/test handlers that call it.     *)
(*                                                                         *)
(* Text is modelled as a sequence of tokens: a token is an indivisible     *)
(* piece of text ("set", " ", "#", "\n", "commit", ...).  String           *)
(* concatenation is \o, the empty string is <<>>.                          *)
(***************************************************************************)
EXTENDS Integers, Sequences, FiniteSets, TLC

\* ------------------------------------------------------------------ bounds
\* Longest configuration text, in lines.
MaxLines == 3
\* Most output chunks the interactive channel delivers in one call.
MaxChunks == 2
\* Most anomalies the environment produces in one call (non-zero or missing
\* exit status, exec/shell open error, stderr output, early channel close, a
\* helper process that does not report success).  Timers are part of the
\* program and are not limited by this bound.
MaxFaults == 1
\* Number of ids randomUUID() and the requests to the storage draw from.
MaxIds == 2

\* ------------------------------------------------------------ text helpers
\* JavaScript's whitespace class, as far as the token alphabet has it.
Whitespace == {" ", "\t", "\n"}

\* String.prototype.trim: what lies between the first and the last token that
\* is not whitespace
Trim(s) ==
  LET keep == {i \in 1..Len(s) : s[i] \notin Whitespace}
  IN IF keep = {} THEN <<>>
     ELSE SubSeq(s, CHOOSE i \in keep : \A j \in keep : i <= j,
                    CHOOSE i \in keep : \A j \in keep : i >= j)

\* String.prototype.split('\n'): the pieces between newline tokens; the empty
\* text splits into one empty line.
SplitLines(s) ==
  LET nl == {i \in 1..Len(s) : s[i] = "\n"}
      cut(k) == CHOOSE i \in nl : Cardinality({j \in nl : j <= i}) = k
      lo(k) == IF k = 1 THEN 1 ELSE cut(k - 1) + 1
      hi(k) == IF k = Cardinality(nl) + 1 THEN Len(s) ELSE cut(k) - 1
  IN [k \in 1..(Cardinality(nl) + 1) |-> SubSeq(s, lo(k), hi(k))]

\* Array.prototype.join(sep)
RECURSIVE JoinFrom(_, _, _)
JoinFrom(parts, i, sep) ==
  IF i > Len(parts) THEN <<>>
  ELSE IF i = Len(parts) THEN parts[i]
  ELSE parts[i] \o sep \o JoinFrom(parts, i + 1, sep)

Join(parts, sep) == JoinFrom(parts, 1, sep)

\* JSON.stringify of a string: the text between double quotes, with the
\* newline, the double quote and the backslash escaped.  (A token is one of
\* these characters or a run of characters that need no escape.)
EscapeToken(t) ==
  CASE t = "\n" -> "\\n"
    [] t = "\"" -> "\\\""
    [] t = "\\" -> "\\\\"
    [] OTHER -> t

JsonString(s) == <<"\"">> \o [i \in 1..Len(s) |-> EscapeToken(s[i])] \o <<"\"">>

\* JSON.stringify of a boolean
JsonBool(b) == IF b THEN "true" ELSE "false"

\* String.prototype.includes
Includes(s, sub) ==
  \E i \in 0..(Len(s) - Len(sub)) : SubSeq(s, i + 1, i + Len(sub)) = sub

\* l && !l.startsWith('#') && /^(set|delete)\s/.test(l)
IsDirective(l) ==
  /\ l # <<>>
  /\ l[1] # "#"
  /\ Len(l) >= 2 /\ l[1] \in {"set", "delete"} /\ l[2] \in Whitespace

\* FilterLines testing the raw lines, the trim forgotten.
FilterLines_Untrimmed(lines) == SelectSeq(lines, IsDirective)

\* lines.map(l => l.trim()).filter(...)
FilterLines(lines) ==
  SelectSeq([i \in 1..Len(lines) |-> Trim(lines[i])], IsDirective)

\* ---------------------------------------------------------------- requests
\* Raw lines a configuration text is cut from: directives, padded
\* directives, a comment, a blank line and a line that only looks like 'set'.
LinePool ==
  << <<"set", " ", "a">>,
     <<"#", " ", "set", " ", "c">>,
     <<" ", "delete", " ", "b", " ">>,
     <<>>,
     <<"set", "x">> >>

\* The n-th line of the text the configurations are cut from (the pool,
\* repeated).
PoolLine(n) == LinePool[((n - 1) % Len(LinePool)) + 1]

\* The texts of 0..MaxLines lines: the first n pool lines joined by newlines.
Configurations ==
  {Join([k \in 1..n |-> PoolLine(k)], <<"\n">>) : n \in 0..MaxLines}

\* The longest of them.
LongestConfiguration ==
  Join([k \in 1..MaxLines |-> PoolLine(k)], <<"\n">>)

\* Requests after validation (commit, save and dryRun are booleans once the
\* defaults are filled in): every combination of the three flags on the
\* longest text, and every text applied and dry-run with commit and save set.
Requests ==
  [configuration : {LongestConfiguration}, commit : BOOLEAN, save : BOOLEAN,
   dryRun : BOOLEAN]
  \cup [configuration : Configurations, commit : {TRUE}, save : {TRUE},
        dryRun : BOOLEAN]

\* The request of a testSshCommand call: only the command matters.
DefaultRequest ==
  [configuration |-> <<>>, commit |-> TRUE, save |-> TRUE, dryRun |-> FALSE]

\* ------------------------------------------------------------------- state
VARIABLES
  call,            \* "apply": POST /api/routers/apply, "test": POST /api/routers/test
  req,             \* the validated request (input)
  pc,              \* what applyVyOSConfig / testSshCommand is awaiting
  idx,             \* index of the directive whose runWrapper is awaited
  setDeleteLines,  \* the filtered directives
  pendErr,         \* exception travelling through a finally block (<<>>: none)
  pendRet,         \* return value travelling through a finally block (<<>>: none)
  logs,            \* the logs array
  sent,            \* every command handed to the device, in order
  endCalls,        \* number of conn.end() calls
  sh,              \* the interactive session of runConfigureInteractive
  faults,          \* anomalies the device side has produced so far
  result,          \* value the call returned (<<>>: none)
  error,           \* message of the error the call threw (<<>>: none)
  rpc,             \* position of the route handler
  helperIn,        \* documents written to the stdin of spawned helper processes
  responses,       \* HTTP responses sent
  pty,             \* the device end of the interactive channel
  configurations,        \* MemStorage.configurations
  topologyNodes,         \* MemStorage.topologyNodes
  topologyConnections    \* MemStorage.topologyConnections

\* the maps of MemStorage
storage == <<configurations, topologyNodes, topologyConnections>>

\* A map without entries (new Map()).
EmptyMap == [k \in {} |-> k]

\* The device end before anything was written: how many of the written lines
\* the terminal has echoed and how many the device has carried out.
PtyIdle == [echoed |-> 0, processed |-> 0]

vars ==
  <<call, req, pc, idx, setDeleteLines, pendErr, pendRet, logs, sent, endCalls,
    sh, faults, result, error, rpc, helperIn, responses, pty, storage>>

\* ------------------------------------------------------- session transport
\* Exit status of a channel that closed without one (code: number | null).
NullCode == -1

\* if (code) ...
Truthy(code) == code # NullCode /\ code # 0

\* What the device can answer to one exec: a clean exit, a rejected command,
\* or a close without an exit status after writing to stderr.
CleanClose == [kind |-> "close", stdout |-> <<"ok", "\n">>, stderr |-> <<>>, code |-> 0]

FaultyCloses ==
  { [kind |-> "close", stdout |-> <<>>, stderr |-> <<"bad", "\n">>, code |-> 1],
    [kind |-> "close", stdout |-> <<>>, stderr |-> <<"lost", "\n">>, code |-> NullCode] }

\* conn.exec's callback reporting err
ExecFailure == [kind |-> "error", message |-> <<"Unable to exec">>]

\* the timer of a Promise.race winning
TimerWins == [kind |-> "timeout"]

\* A command started on the session (conn.exec with a pty).
Exec(command) == [via |-> "exec", text |-> command]

\* A line written to the interactive channel (stream.write(cmd + "\n")).
Write(cmd) == [via |-> "shell", text |-> cmd \o <<"\n">>]

\* ------------------------------------------------------------- batch script
\* ScriptParts with the raw lines, the filter forgotten.
ScriptParts_Unfiltered(lines, options) ==
  << <<"source /opt/vyatta/etc/functions/script-template">>, <<"configure">> >>
  \o lines
  \o (IF options.dryRun THEN << <<"discard">> >>
      ELSE (IF options.commit THEN << <<"commit">> >> ELSE <<>>)
           \o (IF options.save THEN << <<"save">> >> ELSE <<>>))
  \o << <<"exit">> >>

\* buildVyOSScript: the parts, before they are joined
ScriptParts(lines, options) ==
  << <<"source /opt/vyatta/etc/functions/script-template">>, <<"configure">> >>
  \o FilterLines(lines)
  \o (IF options.dryRun THEN << <<"discard">> >>
      ELSE (IF options.commit THEN << <<"commit">> >> ELSE <<>>)
           \o (IF options.save THEN << <<"save">> >> ELSE <<>>))
  \o << <<"exit">> >>

buildVyOSScript(lines, options) == Join(ScriptParts(lines, options), <<" && ">>)

\* `vbash -ic ${JSON.stringify(script)}`
ScriptCommand(script) == <<"vbash -ic ">> \o JsonString(script)

\* --------------------------------------------------------- wrapper strategy
\* `/opt/vyatta/sbin/vyatta-cfg-cmd-wrapper ${cmd}`
WrapperCommand(cmd) == <<"/opt/vyatta/sbin/vyatta-cfg-cmd-wrapper ">> \o cmd

\* runWrapper after the race has settled with o: the lines it logs and the
\* message of the error it throws (<<>>: it returns normally).
runWrapper(cmd, o) ==
  IF o.kind = "timeout" THEN [logs |-> <<>>, err |-> <<"Timeout: ">> \o cmd]
  ELSE IF o.kind = "error" THEN [logs |-> <<>>, err |-> o.message]
  ELSE [logs |-> (IF o.stdout # <<>> THEN <<Trim(o.stdout)>> ELSE <<>>)
                 \o (IF o.stderr # <<>> THEN <<Trim(o.stderr)>> ELSE <<>>),
        err  |-> IF Truthy(o.code) /\ o.code # 0
                 THEN cmd \o <<" failed (", ToString(o.code), "): ">>
                      \o (IF o.stderr # <<>> THEN o.stderr ELSE o.stdout)
                 ELSE <<>>]

\* return { applied: false, commit: false, saved: false, dryRun: true, logs }
WrapperDryResult ==
  [applied |-> FALSE, commit |-> FALSE, saved |-> FALSE, dryRun |-> TRUE]

\* WrapperResult reporting a commit whether or not the request asked for one.
WrapperResult_AlwaysCommitted(r) ==
  [applied |-> TRUE, commit |-> TRUE, saved |-> r.save, dryRun |-> FALSE]

\* return { applied: true, commit: !!commit, saved: !!save, dryRun: false, logs }
WrapperResult(r) ==
  [applied |-> TRUE, commit |-> r.commit, saved |-> r.save, dryRun |-> FALSE]

\* InteractiveResult with the flags copied from the request, dryRun ignored.
InteractiveResult_Unconditional(r) ==
  [applied |-> TRUE, commit |-> r.commit, saved |-> r.save, dryRun |-> r.dryRun]

\* return { applied: !dryRun, commit: !!commit && !dryRun, ... } after the
\* interactive session
InteractiveResult(r) ==
  [applied |-> ~r.dryRun, commit |-> r.commit /\ ~r.dryRun,
   saved |-> r.save /\ ~r.dryRun, dryRun |-> r.dryRun]

\* the same expression after the batch script
ScriptResult(r) ==
  [applied |-> ~r.dryRun, commit |-> r.commit /\ ~r.dryRun,
   saved |-> r.save /\ ~r.dryRun, dryRun |-> r.dryRun]

\* ----------------------------------------------------- interactive strategy
\* Date.now() when runConfigureInteractive starts
Now == "1730764800000"

sentinelEnd == <<"__END_", Now, "__">>
\* sentinelCommit built on the end marker's prefix.
sentinelCommit_SameAsEnd == <<"__END_", Now, "__">>

sentinelCommit == <<"__COMMIT_", Now, "__">>
sentinelSave == <<"__SAVE_", Now, "__">>
sentinelCompare == <<"__COMPARE_", Now, "__">>

\* InteractiveScript without the dryRun branch: commit and save are written
\* whenever the request asks for them.
InteractiveScript_AlwaysCommits(lines, options) ==
  << <<"configure">> >>
  \o lines
  \o (IF options.commit
      THEN << <<"commit">>, <<"run echo ">> \o sentinelCommit >> ELSE <<>>)
  \o (IF options.save
      THEN << <<"save">>, <<"run echo ">> \o sentinelSave >> ELSE <<>>)
  \o << <<"run echo ">> \o sentinelEnd, <<"exit">> >>

\* InteractiveScript echoing the end marker before 'save'.
InteractiveScript_MarkerBeforeSave(lines, options) ==
  << <<"configure">> >>
  \o lines
  \o (IF options.dryRun
      THEN << <<"compare">>, <<"run echo ">> \o sentinelCompare, <<"discard">>,
              <<"run echo ">> \o sentinelEnd, <<"exit">> >>
      ELSE (IF options.commit
            THEN << <<"commit">>, <<"run echo ">> \o sentinelCommit >> ELSE <<>>)
           \o << <<"run echo ">> \o sentinelEnd >>
           \o (IF options.save
               THEN << <<"save">>, <<"run echo ">> \o sentinelSave >> ELSE <<>>)
           \o << <<"exit">> >>)

\* The lines runConfigureInteractive writes once the shell is open.
InteractiveScript(lines, options) ==
  << <<"configure">> >>
  \o lines
  \o (IF options.dryRun
      THEN << <<"compare">>, <<"run echo ">> \o sentinelCompare, <<"discard">>,
              <<"run echo ">> \o sentinelEnd, <<"exit">> >>
      ELSE (IF options.commit
            THEN << <<"commit">>, <<"run echo ">> \o sentinelCommit >> ELSE <<>>)
           \o (IF options.save
               THEN << <<"save">>, <<"run echo ">> \o sentinelSave >> ELSE <<>>)
           \o << <<"run echo ">> \o sentinelEnd, <<"exit">> >>)

\* The session before runConfigureInteractive is called.
\*   cb:    conn.shell's callback ("none", "pending", "open", "failed")
\*   timer: "off", "armed", "fired", "cleared"
ShellIdle ==
  [cb |-> "none", timer |-> "off", done |-> FALSE, closed |-> FALSE,
   stdout |-> <<>>, stderr |-> <<>>, chunks |-> 0]

\* Output the channel can deliver in one 'data' event: the end marker's line
\* arrives cut in two, and either piece alone is ordinary output.
ShellChunks ==
  { <<"[edit]", "\n", "__END_", Now>>, <<"__", "\n">> }

\* d.toString().split(/\r?\n/).filter(Boolean)
NonEmpty(l) == l # <<>>
ChunkLines(d) == SelectSeq(SplitLines(d), NonEmpty)

\* The options every strategy is given: { commit: !!commit, save: !!save,
\* dryRun: !!dryRun }
Options(r) == [commit |-> r.commit, save |-> r.save, dryRun |-> r.dryRun]

\* -------------------------------------------------------------------- Init
Init ==
  /\ call \in {"apply", "test"}
  /\ req \in (IF call = "apply" THEN Requests ELSE {DefaultRequest})
  /\ pc = "connect"
  /\ idx = 0
  /\ setDeleteLines = <<>>
  /\ pendErr = <<>>
  /\ pendRet = <<>>
  /\ logs = <<>>
  /\ sent = <<>>
  /\ endCalls = 0
  /\ sh = ShellIdle
  /\ faults = 0
  /\ result = <<>>
  /\ error = <<>>
  /\ rpc = "native"
  /\ helperIn = <<>>
  /\ responses = <<>>
  /\ pty = PtyIdle
  /\ configurations = EmptyMap
  /\ topologyNodes = EmptyMap
  /\ topologyConnections = EmptyMap

\* ------------------------------------- control transfers of applyVyOSConfig
\* await runWrapper(cmd): the command is started and the function suspends at
\* p, with e / r the exception / return value an enclosing finally holds.
AwaitWrapper(p, i, cmd, lg, e, r) ==
  /\ pc' = p
  /\ idx' = i
  /\ pendErr' = e
  /\ pendRet' = r
  /\ logs' = logs \o lg
  /\ sent' = Append(sent, Exec(WrapperCommand(cmd)))
  /\ UNCHANGED <<sh, endCalls, result, error>>

\* StartInteractive with the inner catch missing: the wrapper's error goes
\* straight to catch (primaryError) and the batch script.
StartInteractive_Bypassed(lg, e) ==
  /\ pc' = "script"
  /\ idx' = 0
  /\ pendErr' = <<>>
  /\ pendRet' = <<>>
  /\ logs' = logs \o lg
       \o << <<"Wrapper mode failed: ">> \o e,
             <<"Fallback: executing script via vbash">> >>
  /\ sent' = Append(sent,
       Exec(ScriptCommand(buildVyOSScript(SplitLines(req.configuration), Options(req)))))
  /\ sh' = sh
  /\ UNCHANGED <<endCalls, result, error>>

\* StartInteractive keeping a transcript of its own: what the wrapper logged
\* is dropped.
StartInteractive_FreshLogs(lg, e) ==
  /\ pc' = "shell"
  /\ idx' = 0
  /\ pendErr' = <<>>
  /\ pendRet' = <<>>
  /\ logs' =
       << <<"Wrapper mode failed: ">> \o e \o <<"; trying interactive configure">> >>
  /\ sh' = [ShellIdle EXCEPT !.cb = "pending", !.timer = "armed"]
  /\ sent' = sent
  /\ UNCHANGED <<endCalls, result, error>>

\* catch (e) of the wrapper strategy up to the conn.shell call of
\* runConfigureInteractive: the timer is armed and the shell requested.
StartInteractive(lg, e) ==
  /\ pc' = "shell"
  /\ idx' = 0
  /\ pendErr' = <<>>
  /\ pendRet' = <<>>
  /\ logs' = logs \o lg
       \o << <<"Wrapper mode failed: ">> \o e \o <<"; trying interactive configure">> >>
  /\ sh' = [ShellIdle EXCEPT !.cb = "pending", !.timer = "armed"]
  /\ sent' = sent
  /\ UNCHANGED <<endCalls, result, error>>

\* StartScript without the batch script: the error of the interactive
\* session is thrown to the caller.
StartScript_Abandoned(lg, e, s2) ==
  /\ pc' = "thrown"
  /\ logs' = logs \o lg \o << <<"Wrapper mode failed: ">> \o e >>
  /\ sent' = sent
  /\ sh' = s2
  /\ error' = e
  /\ endCalls' = endCalls + 1
  /\ UNCHANGED <<idx, pendErr, pendRet, result>>

\* catch (primaryError) up to the race on the vbash command
StartScript(lg, e, s2) ==
  /\ pc' = "script"
  /\ logs' = logs \o lg
       \o << <<"Wrapper mode failed: ">> \o e,
             <<"Fallback: executing script via vbash">> >>
  /\ \E lines \in {SplitLines(req.configuration)} :
       \E script \in {buildVyOSScript(lines, Options(req))} :
         sent' = Append(sent, Exec(ScriptCommand(script)))
  /\ sh' = s2
  /\ error' = error
  /\ endCalls' = endCalls
  /\ UNCHANGED <<idx, pendErr, pendRet, result>>

\* a return statement inside the outer try: finally { conn.end() } runs
Return(lg, r, s2) ==
  /\ pc' = "returned"
  /\ result' = <<r>>
  /\ logs' = logs \o lg
  /\ endCalls' = endCalls + 1
  /\ sh' = s2
  /\ UNCHANGED <<idx, pendErr, pendRet, sent, error>>

\* Throw without the outer finally: the session is left open.
Throw_LeavesSessionOpen(lg, e) ==
  /\ pc' = "thrown"
  /\ error' = e
  /\ logs' = logs \o lg
  /\ endCalls' = endCalls
  /\ UNCHANGED <<idx, pendErr, pendRet, sent, sh, result>>

\* throw fallbackError: finally { conn.end() } runs
Throw(lg, e) ==
  /\ pc' = "thrown"
  /\ error' = e
  /\ logs' = logs \o lg
  /\ endCalls' = endCalls + 1
  /\ UNCHANGED <<idx, pendErr, pendRet, sent, sh, result>>

\* ------------------------------------------------------------- connecting
\* the message of the error the client emits when no session can be opened
ConnectError == <<"All configured authentication methods failed">>

\* 'ready' of applyVyOSConfig's client: filter the lines, start 'begin'
ApplyConnectReady ==
  /\ call = "apply" /\ pc = "connect"
  /\ setDeleteLines' = FilterLines(SplitLines(req.configuration))
  /\ pc' = "begin"
  /\ logs' = Append(logs, <<"Applying via vyatta-cfg-cmd-wrapper (begin/session)">>)
  /\ sent' = Append(sent, Exec(WrapperCommand(<<"begin">>)))
  /\ UNCHANGED <<call, req, idx, pendErr, pendRet, endCalls, sh, faults, result,
                 error, rpc, helperIn, responses, pty, storage>>

\* 'error' of the client (authentication, network, readyTimeout): the await
\* outside the try rejects
ApplyConnectError ==
  /\ call = "apply" /\ pc = "connect"
  /\ pc' = "thrown"
  /\ error' = ConnectError
  /\ UNCHANGED <<call, req, idx, setDeleteLines, pendErr, pendRet, logs, sent,
                 endCalls, sh, faults, result, rpc, helperIn, responses, pty, storage>>

\* ------------------------------------------------- wrapper strategy, steps
\* after the directive loop
AfterLoop(lg) ==
  IF req.dryRun THEN AwaitWrapper("compare", 0, <<"compare">>, lg, <<>>, <<>>)
  ELSE IF req.commit THEN AwaitWrapper("commit", 0, <<"commit">>, lg, <<>>, <<>>)
  ELSE IF req.save THEN AwaitWrapper("save", 0, <<"save">>, lg, <<>>, <<>>)
  ELSE AwaitWrapper("end", 0, <<"end">>, lg, <<>>, <<WrapperResult(req)>>)

\* for (const line of setDeleteLines) await runWrapper(line)
NextDirective(i, lg) ==
  IF i <= Len(setDeleteLines)
  THEN AwaitWrapper("line", i, setDeleteLines[i], lg, <<>>, <<>>)
  ELSE AfterLoop(lg)

\* the inner finally: await runWrapper('end') with e or r pending
FinallyEnd(lg, e, r) == AwaitWrapper("end", 0, <<"end">>, lg, e, r)

\* BeginSettles with 'begin' inside the inner try: its failure runs 'end'.
BeginSettles_InsideTry(o) ==
  /\ pc = "begin"
  /\ LET w == runWrapper(<<"begin">>, o)
     IN IF w.err = <<>> THEN NextDirective(1, w.logs)
        ELSE FinallyEnd(w.logs, w.err, <<>>)

BeginSettles(o) ==
  /\ pc = "begin"
  /\ LET w == runWrapper(<<"begin">>, o)
     IN IF w.err = <<>> THEN NextDirective(1, w.logs)
        ELSE StartInteractive(w.logs, w.err)

LineSettles(o) ==
  /\ pc = "line"
  /\ LET w == runWrapper(setDeleteLines[idx], o)
     IN IF w.err = <<>> THEN NextDirective(idx + 1, w.logs)
        ELSE FinallyEnd(w.logs, w.err, <<>>)

\* CompareSettles without the finally: a failed compare skips the discard.
CompareSettles_NoFinally(o) ==
  /\ pc = "compare"
  /\ LET w == runWrapper(<<"compare">>, o)
     IN IF w.err # <<>> THEN FinallyEnd(w.logs, w.err, <<>>)
        ELSE AwaitWrapper("discard", 0, <<"discard">>, w.logs, <<>>, <<>>)

\* try { compare } finally { discard }
CompareSettles(o) ==
  /\ pc = "compare"
  /\ LET w == runWrapper(<<"compare">>, o)
     IN AwaitWrapper("discard", 0, <<"discard">>, w.logs, w.err, <<>>)

DiscardSettles(o) ==
  /\ pc = "discard"
  /\ LET w == runWrapper(<<"discard">>, o)
     IN IF w.err # <<>> THEN FinallyEnd(w.logs, w.err, <<>>)
        ELSE IF pendErr # <<>> THEN FinallyEnd(w.logs, pendErr, <<>>)
        ELSE FinallyEnd(w.logs, <<>>, <<WrapperDryResult>>)

\* CommitSettles that ends the change-set right after the commit, the save
\* forgotten.
CommitSettles_NoSave(o) ==
  /\ pc = "commit"
  /\ LET w == runWrapper(<<"commit">>, o)
     IN IF w.err # <<>> THEN FinallyEnd(w.logs, w.err, <<>>)
        ELSE FinallyEnd(w.logs, <<>>, <<WrapperResult(req)>>)

\* CommitSettles going on to 'save' although 'commit' failed.
CommitSettles_IgnoresFailure(o) ==
  /\ pc = "commit"
  /\ LET w == runWrapper(<<"commit">>, o)
     IN IF req.save THEN AwaitWrapper("save", 0, <<"save">>, w.logs, <<>>, <<>>)
        ELSE IF w.err # <<>> THEN FinallyEnd(w.logs, w.err, <<>>)
        ELSE FinallyEnd(w.logs, <<>>, <<WrapperResult(req)>>)

CommitSettles(o) ==
  /\ pc = "commit"
  /\ LET w == runWrapper(<<"commit">>, o)
     IN IF w.err # <<>> THEN FinallyEnd(w.logs, w.err, <<>>)
        ELSE IF req.save THEN AwaitWrapper("save", 0, <<"save">>, w.logs, <<>>, <<>>)
        ELSE FinallyEnd(w.logs, <<>>, <<WrapperResult(req)>>)

SaveSettles(o) ==
  /\ pc = "save"
  /\ LET w == runWrapper(<<"save">>, o)
     IN IF w.err # <<>> THEN FinallyEnd(w.logs, w.err, <<>>)
        ELSE FinallyEnd(w.logs, <<>>, <<WrapperResult(req)>>)

\* EndSettles with the error of 'end' escaping its try/catch.
EndSettles_Escalates(o) ==
  /\ pc = "end"
  /\ LET w == runWrapper(<<"end">>, o)
         lg == w.logs \o (IF w.err # <<>> THEN << <<"end failed: ">> \o w.err >>
                          ELSE <<>>)
     IN IF w.err # <<>> THEN StartInteractive(lg, w.err)
        ELSE IF pendErr # <<>> THEN StartInteractive(lg, pendErr)
        ELSE Return(lg, pendRet[1], sh)

\* EndSettles starting the interactive session although the wrapper succeeded.
EndSettles_AlwaysFallsBack(o) ==
  /\ pc = "end"
  /\ LET w == runWrapper(<<"end">>, o)
         lg == w.logs \o (IF w.err # <<>> THEN << <<"end failed: ">> \o w.err >>
                          ELSE <<>>)
     IN IF pendErr # <<>> THEN StartInteractive(lg, pendErr)
        ELSE StartInteractive(lg, <<"no error">>)

\* try { end } catch { log }, then the pending exception or return goes on
EndSettles(o) ==
  /\ pc = "end"
  /\ LET w == runWrapper(<<"end">>, o)
         lg == w.logs \o (IF w.err # <<>> THEN << <<"end failed: ">> \o w.err >>
                          ELSE <<>>)
     IN IF pendErr # <<>> THEN StartInteractive(lg, pendErr)
        ELSE Return(lg, pendRet[1], sh)

\* ------------------------------------------------------------ batch script
\* the race on the vbash command and the exit-code check after it
runScript(o) ==
  IF o.kind = "timeout" THEN [logs |-> <<>>, err |-> <<"SSH command timeout">>]
  ELSE IF o.kind = "error" THEN [logs |-> <<>>, err |-> o.message]
  ELSE [logs |-> (IF o.stdout # <<>> THEN <<Trim(o.stdout)>> ELSE <<>>)
                 \o (IF o.stderr # <<>> THEN <<Trim(o.stderr)>> ELSE <<>>),
        err  |-> IF Truthy(o.code) /\ o.code # 0
                 THEN <<"Apply failed (", ToString(o.code), "): ">>
                      \o (IF o.stderr # <<>> THEN o.stderr ELSE o.stdout)
                 ELSE <<>>]

ScriptSettles(o) ==
  /\ pc = "script"
  /\ LET w == runScript(o)
     IN IF w.err = <<>> THEN Return(w.logs, ScriptResult(req), sh)
        ELSE Throw(w.logs \o << <<"Fallback failed: ">> \o w.err >>, w.err)

\* ---------------------------------------------------------- testSshCommand
TestConnectReady ==
  /\ call = "test" /\ pc = "connect"
  /\ pc' = "test"
  /\ sent' = Append(sent, Exec(<<"show version">>))
  /\ UNCHANGED <<call, req, idx, setDeleteLines, pendErr, pendRet, logs, endCalls,
                 sh, faults, result, error, rpc, helperIn, responses, pty, storage>>

TestConnectError ==
  /\ call = "test" /\ pc = "connect"
  /\ pc' = "thrown"
  /\ error' = ConnectError
  /\ UNCHANGED <<call, req, idx, setDeleteLines, pendErr, pendRet, logs, sent,
                 endCalls, sh, faults, result, rpc, helperIn, responses, pty, storage>>

\* TestSettles that runs the command a second time when the first timed out.
TestSettles_RetriesOnTimeout(o) ==
  /\ pc = "test"
  /\ IF o.kind = "timeout" /\ Len(sent) < 2
     THEN /\ sent' = Append(sent, Exec(<<"show version">>))
          /\ UNCHANGED <<pc, endCalls, result, error>>
     ELSE /\ endCalls' = endCalls + 1
          /\ sent' = sent
          /\ IF o.kind = "close"
             THEN /\ pc' = "returned"
                  /\ result' = <<[ok |-> ~Truthy(o.code), stdout |-> o.stdout,
                                  stderr |-> o.stderr]>>
                  /\ error' = error
             ELSE /\ pc' = "thrown"
                  /\ error' = (IF o.kind = "timeout" THEN <<"SSH test timeout">>
                               ELSE o.message)
                  /\ result' = result
  /\ UNCHANGED <<idx, pendErr, pendRet, logs, sh>>

\* return { ok: !code, stdout, stderr } or the rejection of the race;
\* finally { conn.end() }
TestSettles(o) ==
  /\ pc = "test"
  /\ endCalls' = endCalls + 1
  /\ IF o.kind = "close"
     THEN /\ pc' = "returned"
          /\ result' = <<[ok |-> ~Truthy(o.code), stdout |-> o.stdout,
                          stderr |-> o.stderr]>>
          /\ error' = error
     ELSE /\ pc' = "thrown"
          /\ error' = (IF o.kind = "timeout" THEN <<"SSH test timeout">>
                       ELSE o.message)
          /\ result' = result
  /\ UNCHANGED <<idx, pendErr, pendRet, logs, sent, sh>>

\* ------------------------------------------- settling of an awaited command
Settles(o) ==
  /\ \/ BeginSettles(o)
     \/ LineSettles(o)
     \/ CompareSettles(o)
     \/ DiscardSettles(o)
     \/ CommitSettles(o)
     \/ SaveSettles(o)
     \/ EndSettles(o)
     \/ ScriptSettles(o)
     \/ TestSettles(o)
  /\ UNCHANGED <<call, req, setDeleteLines, rpc, helperIn, responses, pty, storage>>

\* the stream of execOverSsh closes: resolve({ stdout, stderr, code })
ExecClose ==
  \E o \in {CleanClose} \cup (IF faults < MaxFaults THEN FaultyCloses ELSE {}) :
    /\ faults' = (IF o = CleanClose THEN faults ELSE faults + 1)
    /\ Settles(o)

\* conn.exec calls back with err: reject(err)
ExecError ==
  /\ faults < MaxFaults
  /\ faults' = faults + 1
  /\ Settles(ExecFailure)

\* the setTimeout of the race rejects first; the command is not cancelled
ExecTimeout ==
  /\ faults' = faults
  /\ Settles(TimerWins)

\* ------------------------------------------ interactive strategy, its events
ShellFrame == UNCHANGED <<call, req, setDeleteLines, rpc, helperIn, responses, pty, storage>>

\* conn.shell calls back with the stream: the handlers are registered and the
\* whole script is written.  Nothing cancels the callback when the timer has
\* already rejected.
ShellOpen ==
  /\ sh.cb = "pending" /\ endCalls = 0
  /\ LET script == InteractiveScript(setDeleteLines, Options(req))
     IN sent' = sent \o [i \in 1..Len(script) |-> Write(script[i])]
  /\ sh' = [sh EXCEPT !.cb = "open"]
  /\ UNCHANGED <<pc, idx, pendErr, pendRet, logs, endCalls, result, error, faults>>
  /\ ShellFrame

\* conn.shell calls back with err: clearTimeout(timer); reject(err)
ShellOpenError ==
  /\ sh.cb = "pending" /\ endCalls = 0
  /\ faults < MaxFaults
  /\ faults' = faults + 1
  /\ LET s2 == [sh EXCEPT !.cb = "failed",
                          !.timer = IF @ = "armed" THEN "cleared" ELSE @]
     IN IF pc = "shell" THEN StartScript(<<>>, <<"Unable to start shell">>, s2)
        ELSE /\ sh' = s2
             /\ UNCHANGED <<pc, idx, pendErr, pendRet, logs, sent, endCalls,
                            result, error>>
  /\ ShellFrame

\* ShellData looking for the end marker in the chunk alone.
ShellData_PerChunk ==
  /\ sh.cb = "open" /\ ~sh.closed /\ endCalls = 0
  /\ sh.chunks < MaxChunks
  /\ \E d \in ShellChunks :
       LET out == sh.stdout \o d
           hit == Includes(d, sentinelEnd)
           s2  == [sh EXCEPT !.stdout = out, !.chunks = @ + 1,
                             !.done = @ \/ hit,
                             !.timer = IF hit /\ @ = "armed" THEN "cleared" ELSE @]
       IN IF hit /\ pc = "shell"
          THEN Return(ChunkLines(d), InteractiveResult(req), s2)
          ELSE /\ logs' = logs \o ChunkLines(d)
               /\ sh' = s2
               /\ UNCHANGED <<pc, idx, pendErr, pendRet, sent, endCalls, result,
                              error>>
  /\ UNCHANGED faults
  /\ ShellFrame

\* ShellData letting a marker that comes after the timer settle the call.
ShellData_LateMarkerResolves ==
  /\ sh.cb = "open" /\ ~sh.closed /\ endCalls = 0
  /\ sh.chunks < MaxChunks
  /\ \E d \in ShellChunks :
       LET out == sh.stdout \o d
           hit == Includes(out, sentinelEnd)
           s2  == [sh EXCEPT !.stdout = out, !.chunks = @ + 1,
                             !.done = @ \/ hit,
                             !.timer = IF hit /\ @ = "armed" THEN "cleared" ELSE @]
       IN IF hit /\ pc \in {"shell", "script"}
          THEN Return(ChunkLines(d), InteractiveResult(req), s2)
          ELSE /\ logs' = logs \o ChunkLines(d)
               /\ sh' = s2
               /\ UNCHANGED <<pc, idx, pendErr, pendRet, sent, endCalls, result,
                              error>>
  /\ UNCHANGED faults
  /\ ShellFrame

\* stream.on('data') given the chunk d: accumulate, log the lines, look for
\* the end marker
OnData(d) ==
  LET out == sh.stdout \o d
      hit == Includes(out, sentinelEnd)
      s2  == [sh EXCEPT !.stdout = out, !.chunks = @ + 1,
                        !.done = @ \/ hit,
                        !.timer = IF hit /\ @ = "armed" THEN "cleared" ELSE @]
  IN IF hit /\ pc = "shell"
     THEN Return(ChunkLines(d), InteractiveResult(req), s2)
     ELSE /\ logs' = logs \o ChunkLines(d)
          /\ sh' = s2
          /\ UNCHANGED <<pc, idx, pendErr, pendRet, sent, endCalls, result,
                         error>>

\* a 'data' event of the interactive channel
ShellData ==
  /\ sh.cb = "open" /\ ~sh.closed /\ endCalls = 0
  /\ sh.chunks < MaxChunks
  /\ \E d \in ShellChunks : OnData(d)
  /\ UNCHANGED faults
  /\ ShellFrame

\* stream.stderr.on('data')
ShellStderr ==
  /\ sh.cb = "open" /\ ~sh.closed /\ endCalls = 0
  /\ faults < MaxFaults
  /\ faults' = faults + 1
  /\ LET d == <<"Configuration path is not valid", "\n">>
     IN /\ sh' = [sh EXCEPT !.stderr = @ \o d]
        /\ logs' = Append(logs, <<"[stderr] ">> \o Trim(d))
  /\ UNCHANGED <<pc, idx, pendErr, pendRet, sent, endCalls, result, error>>
  /\ ShellFrame

\* ShellClose rejecting with the fixed message whatever stderr holds.
ShellClose_FixedMessage ==
  /\ sh.cb = "open" /\ ~sh.closed
  /\ pc = "shell" \/ (pc = "returned" /\ sh.done)
  /\ faults < MaxFaults \/ sh.stderr # <<>> \/ sh.done
  /\ faults' = IF sh.stderr # <<>> \/ sh.done THEN faults ELSE faults + 1
  /\ LET s2 == [sh EXCEPT !.closed = TRUE,
                          !.timer = IF ~sh.done /\ @ = "armed" THEN "cleared" ELSE @]
     IN IF ~sh.done /\ pc = "shell"
        THEN StartScript(<<>>, <<"SSH shell closed before completion">>, s2)
        ELSE /\ sh' = s2
             /\ UNCHANGED <<pc, idx, pendErr, pendRet, logs, sent, endCalls,
                            result, error>>
  /\ ShellFrame

\* stream.on('close'): while the promise is pending, clearTimeout and reject
\* with stderr or the fixed message; after the end marker (done) nothing.
\* (A close after the timer has rejected finds the promise settled as well:
\* its reject changes nothing, so it is no step of the model.)  A close that
\* follows error output belongs to the same fault of the device, and the
\* close that follows the script's 'exit' is no fault.
ShellClose ==
  /\ sh.cb = "open" /\ ~sh.closed
  /\ pc = "shell" \/ (pc = "returned" /\ sh.done)
  /\ faults < MaxFaults \/ sh.stderr # <<>> \/ sh.done
  /\ faults' = IF sh.stderr # <<>> \/ sh.done THEN faults ELSE faults + 1
  /\ LET s2 == [sh EXCEPT !.closed = TRUE,
                          !.timer = IF ~sh.done /\ @ = "armed" THEN "cleared" ELSE @]
     IN IF ~sh.done /\ pc = "shell"
        THEN StartScript(<<>>,
               IF sh.stderr # <<>> THEN sh.stderr
               ELSE <<"SSH shell closed before completion">>, s2)
        ELSE /\ sh' = s2
             /\ UNCHANGED <<pc, idx, pendErr, pendRet, logs, sent, endCalls,
                            result, error>>
  /\ ShellFrame

\* ShellTimeout with a callback that rejects nothing.
ShellTimeout_Silent ==
  /\ sh.timer = "armed"
  /\ sh' = [sh EXCEPT !.timer = "fired"]
  /\ UNCHANGED <<pc, idx, pendErr, pendRet, logs, sent, endCalls, result, error>>
  /\ UNCHANGED faults
  /\ UNCHANGED <<call, req, setDeleteLines, rpc, helperIn, responses, pty, storage>>

\* the setTimeout of runConfigureInteractive fires
ShellTimeout ==
  /\ sh.timer = "armed"
  /\ LET s2 == [sh EXCEPT !.timer = "fired"]
     IN IF ~sh.done /\ pc = "shell"
        THEN StartScript(<<>>, <<"Interactive session timeout">>, s2)
        ELSE /\ sh' = s2
             /\ UNCHANGED <<pc, idx, pendErr, pendRet, logs, sent, endCalls,
                            result, error>>
  /\ UNCHANGED faults
  /\ ShellFrame

\* ----------------------------------------------------------- route handlers
\* JSON.stringify(input): the document written to the helper's stdin, member
\* by member
Stringify(r) ==
  [configuration |-> JsonString(r.configuration), commit |-> JsonBool(r.commit),
   save |-> JsonBool(r.save), dryRun |-> JsonBool(r.dryRun)]

\* The helper reading that document back.
UnescapeToken(t) ==
  CASE t = "\\n" -> "\n"
    [] t = "\\\"" -> "\""
    [] t = "\\\\" -> "\\"
    [] OTHER -> t

JsonParse(d) ==
  [configuration |-> [i \in 1..(Len(d.configuration) - 2) |->
                        UnescapeToken(d.configuration[i + 1])],
   commit |-> d.commit = "true", save |-> d.save = "true",
   dryRun |-> d.dryRun = "true"]

\* What the helper process (server/py_apply.py) can leave on its stdout and
\* stderr when it exits: a result document, a failure document, nothing but a
\* traceback, text that is no JSON, or nothing at all.
HelperOutputs(r) ==
  { [out |-> "json", err |-> <<>>,
     doc |-> [ok |-> TRUE, applied |-> ~r.dryRun, commit |-> r.commit /\ ~r.dryRun,
              saved |-> r.save /\ ~r.dryRun, dryRun |-> r.dryRun,
              logs |-> << <<"netmiko: done">> >>, error |-> <<>>]],
    [out |-> "json", err |-> <<>>,
     doc |-> [ok |-> FALSE, applied |-> FALSE, commit |-> FALSE, saved |-> FALSE,
              dryRun |-> r.dryRun, logs |-> << <<"netmiko: connecting">> >>,
              error |-> <<"Authentication failed">>]],
    [out |-> "empty", err |-> <<"Traceback">>, doc |-> [ok |-> FALSE]],
    [out |-> "text", err |-> <<>>, doc |-> [ok |-> FALSE]],
    [out |-> "empty", err |-> <<>>, doc |-> [ok |-> FALSE]] }

\* HelperResponse answering every output that is no result document as a
\* failure of the apply.
HelperResponse_UnparsedAsFailure(h) ==
  IF h.out = "json" /\ h.doc.ok
  THEN [status |-> 200,
        body |-> [applied |-> h.doc.applied, commit |-> h.doc.commit,
                  saved |-> h.doc.saved, dryRun |-> h.doc.dryRun,
                  logs |-> h.doc.logs]]
  ELSE [status |-> 400,
        body |-> [error |-> IF h.out = "json" /\ h.doc.error # <<>> THEN h.doc.error
                            ELSE <<"apply failed">>,
                  logs |-> IF h.out = "json" THEN h.doc.logs ELSE <<>>]]

\* py.on("close"): the response built from the helper's output
HelperResponse(h) ==
  IF h.out = "empty" /\ h.err # <<>>
  THEN [status |-> 500, body |-> [error |-> h.err]]
  ELSE IF h.out = "json"
  THEN IF h.doc.ok
       THEN [status |-> 200,
             body |-> [applied |-> h.doc.applied, commit |-> h.doc.commit,
                       saved |-> h.doc.saved, dryRun |-> h.doc.dryRun,
                       logs |-> h.doc.logs]]
       ELSE [status |-> 400,
             body |-> [error |-> IF h.doc.error # <<>> THEN h.doc.error
                                 ELSE <<"apply failed">>,
                       logs |-> h.doc.logs]]
  ELSE [status |-> 500, body |-> [error |-> <<"invalid netmiko output">>]]

\* const result = await applyVyOSConfig(input); return res.json(result)
RouteNativeResult ==
  /\ call = "apply" /\ rpc = "native" /\ pc = "returned"
  /\ responses' = Append(responses,
       [status |-> 200,
        body |-> [applied |-> result[1].applied, commit |-> result[1].commit,
                  saved |-> result[1].saved, dryRun |-> result[1].dryRun,
                  logs |-> logs]])
  /\ rpc' = "done"
  /\ UNCHANGED <<call, req, pc, idx, setDeleteLines, pendErr, pendRet, logs, sent,
                 endCalls, sh, faults, result, error, helperIn, pty, storage>>

\* RouteFallback writing a document whose dryRun member is lost.
RouteFallback_DropsDryRun ==
  /\ call = "apply" /\ rpc = "native" /\ pc = "thrown"
  /\ helperIn' = Append(helperIn, Stringify([req EXCEPT !.dryRun = FALSE]))
  /\ rpc' = "helper"
  /\ UNCHANGED <<call, req, pc, idx, setDeleteLines, pendErr, pendRet, logs, sent,
                 endCalls, sh, faults, result, error, responses, pty, storage>>

\* catch (nativeErr): spawn the helper and write JSON.stringify(input)
RouteFallback ==
  /\ call = "apply" /\ rpc = "native" /\ pc = "thrown"
  /\ helperIn' = Append(helperIn, Stringify(req))
  /\ rpc' = "helper"
  /\ UNCHANGED <<call, req, pc, idx, setDeleteLines, pendErr, pendRet, logs, sent,
                 endCalls, sh, faults, result, error, responses, pty, storage>>

\* the helper exits
HelperClose ==
  /\ rpc = "helper"
  /\ \E h \in HelperOutputs(JsonParse(helperIn[Len(helperIn)])) :
       /\ (h.out = "json" /\ h.doc.ok) \/ faults < MaxFaults
       /\ faults' = (IF h.out = "json" /\ h.doc.ok THEN faults ELSE faults + 1)
       /\ responses' = Append(responses, HelperResponse(h))
  /\ rpc' = "done"
  /\ UNCHANGED <<call, req, pc, idx, setDeleteLines, pendErr, pendRet, logs, sent,
                 endCalls, sh, result, error, helperIn, pty, storage>>

\* the helper cannot be started: the child process emits 'error', for which
\* the handler registers no listener, so the event is thrown as an uncaught
\* exception and the request is left without a response
HelperSpawnError ==
  /\ rpc = "helper"
  /\ faults < MaxFaults
  /\ faults' = faults + 1
  /\ rpc' = "crashed"
  /\ UNCHANGED <<call, req, pc, idx, setDeleteLines, pendErr, pendRet, logs, sent,
                 endCalls, sh, result, error, helperIn, responses, pty, storage>>

\* POST /api/routers/test: res.json(out) or status 500
TestRespond ==
  /\ call = "test" /\ rpc = "native" /\ pc \in {"returned", "thrown"}
  /\ responses' = Append(responses,
       IF pc = "returned" THEN [status |-> 200, body |-> result[1]]
       ELSE [status |-> 500, body |-> [ok |-> FALSE, error |-> error]])
  /\ rpc' = "done"
  /\ UNCHANGED <<call, req, pc, idx, setDeleteLines, pendErr, pendRet, logs, sent,
                 endCalls, sh, faults, result, error, helperIn, pty, storage>>

\* --------------------------------------------------------------------- Next
Next ==
  \/ ApplyConnectReady
  \/ ApplyConnectError
  \/ TestConnectReady
  \/ TestConnectError
  \/ ExecClose
  \/ ExecError
  \/ ExecTimeout
  \/ ShellOpen
  \/ ShellOpenError
  \/ ShellData
  \/ ShellStderr
  \/ ShellClose
  \/ ShellTimeout
  \/ RouteNativeResult
  \/ RouteFallback
  \/ HelperClose
  \/ HelperSpawnError
  \/ TestRespond

Spec == Init /\ [][Next]_vars

\* Scheduling the code relies on: a timer that is armed fires unless it is
\* cleared (the event loop runs), the client reports 'ready' or 'error' within
\* readyTimeout, and a continuation that is ready to run runs.
Fairness ==
  /\ WF_vars(ApplyConnectReady \/ ApplyConnectError)
  /\ WF_vars(TestConnectReady \/ TestConnectError)
  /\ WF_vars(ExecTimeout)
  /\ WF_vars(ShellTimeout)

FairSpec == Init /\ [][Next]_vars /\ Fairness

\* ------------------------------------------------ the filtering on its own
\* Raw lines for the filtering alone: the pool and lines that are only
\* whitespace, a bare keyword, a comment directly followed by a directive,
\* and a tab-separated directive.
FilterPool ==
  {LinePool[k] : k \in DOMAIN LinePool}
  \cup { <<" ", "\t">>, <<"delete">>, <<"#", "set", " ", "a">>,
         <<"\t", "set", "\t", "a">> }

\* Every text of at most MaxLines such lines, in any order and with
\* repetition.
FilterTexts ==
  {Join(ls, <<"\n">>) :
     ls \in UNION {[1..n -> FilterPool] : n \in 0..MaxLines}}

FilterInit ==
  /\ call = "filter"
  /\ req \in [configuration : FilterTexts, commit : {TRUE}, save : {TRUE},
              dryRun : {FALSE}]
  /\ pc = "raw"
  /\ idx = 0
  /\ setDeleteLines = <<>>
  /\ pendErr = <<>>
  /\ pendRet = <<>>
  /\ logs = <<>>
  /\ sent = <<>>
  /\ endCalls = 0
  /\ sh = ShellIdle
  /\ faults = 0
  /\ result = <<>>
  /\ error = <<>>
  /\ rpc = "native"
  /\ helperIn = <<>>
  /\ responses = <<>>
  /\ pty = PtyIdle
  /\ configurations = EmptyMap
  /\ topologyNodes = EmptyMap
  /\ topologyConnections = EmptyMap

\* rawLines.map(trim).filter(...) of applyVyOSConfig
FilterOnce ==
  /\ call = "filter" /\ pc = "raw"
  /\ setDeleteLines' = FilterLines(SplitLines(req.configuration))
  /\ pc' = "filtered"
  /\ UNCHANGED <<call, req, idx, pendErr, pendRet, logs, sent, endCalls, sh,
                 faults, result, error, rpc, helperIn, responses, pty, storage>>

\* the same filter applied to lines that went through it (buildVyOSScript
\* given filtered lines)
FilterAgain ==
  /\ call = "filter" /\ pc = "filtered"
  /\ setDeleteLines' = FilterLines(setDeleteLines)
  /\ pc' = "refiltered"
  /\ UNCHANGED <<call, req, idx, pendErr, pendRet, logs, sent, endCalls, sh,
                 faults, result, error, rpc, helperIn, responses, pty, storage>>

FilterNext ==
  \/ FilterOnce
  \/ FilterAgain

FilterSpec == FilterInit /\ [][FilterNext]_vars

\* ------------------------------------------- the interactive session alone
\* runConfigureInteractive on a channel with a terminal (conn.shell({ pty:
\* true })), the device end included: the terminal echoes every line written
\* to it, the device carries the lines out one after the other, and both the
\* echo and the device's output reach stream.on('data').  In this
\* specification every entry of sent is a line written to the channel.
PtyInit ==
  /\ call = "session"
  /\ req \in Requests
  /\ pc = "shell"
  /\ idx = 0
  /\ setDeleteLines = FilterLines(SplitLines(req.configuration))
  /\ pendErr = <<>>
  /\ pendRet = <<>>
  /\ logs = <<>>
  /\ sent = <<>>
  /\ endCalls = 0
  /\ sh = [ShellIdle EXCEPT !.cb = "pending", !.timer = "armed"]
  /\ faults = 0
  /\ result = <<>>
  /\ error = <<>>
  /\ rpc = "native"
  /\ helperIn = <<>>
  /\ responses = <<>>
  /\ pty = PtyIdle
  /\ configurations = EmptyMap
  /\ topologyNodes = EmptyMap
  /\ topologyConnections = EmptyMap

PtyFrame ==
  UNCHANGED <<call, req, setDeleteLines, faults, rpc, helperIn, responses,
              storage>>

\* the terminal echoes the next written line; the echo is delivered as data
PtyEcho ==
  /\ call = "session" /\ sh.cb = "open" /\ endCalls = 0
  /\ pty.echoed < Len(sent)
  /\ pty' = [pty EXCEPT !.echoed = @ + 1]
  /\ OnData(sent[pty.echoed + 1].text)
  /\ PtyFrame

\* what the device prints when it carries out a written line: the argument of
\* an echo, and its prompt otherwise
DeviceOutput(line) ==
  IF Head(line) = "run echo " THEN Tail(line) ELSE <<"[edit]", "\n">>

\* the device carries out the next line it has received (a line is echoed
\* before it is carried out); what it prints is delivered as data
DeviceRuns ==
  /\ call = "session" /\ sh.cb = "open" /\ endCalls = 0
  /\ pty.processed < pty.echoed
  /\ pty' = [pty EXCEPT !.processed = @ + 1]
  /\ OnData(DeviceOutput(sent[pty.processed + 1].text))
  /\ PtyFrame

PtyNext ==
  \/ ShellOpen
  \/ PtyEcho
  \/ DeviceRuns

PtySpec == PtyInit /\ [][PtyNext]_vars

\* ----------------------------------------------------------- MemStorage
\* The in-memory storage behind the configuration and topology routes.  An id
\* is one of MaxIds values; a configuration is cut down to its id and name, a
\* node to its id and label, a connection to its id, sourceId and targetId.
Ids == 1..MaxIds

Labels == {"a", "b"}

\* insertConfigurationSchema.parse(req.body) / insertTopologyNodeSchema /
\* insertTopologyConnectionSchema: the id is omitted from the insert schemas
InsertConfigurations == [name : Labels]
InsertTopologyNodes == [label : Labels]
InsertTopologyConnections == [sourceId : Ids, targetId : Ids]

\* req.body of a PATCH, handed to the storage as it came: any of the
\* record's members, the id among them
ConfigurationUpdates ==
  [id : Ids] \cup [name : Labels] \cup [id : Ids, name : Labels]

TopologyNodeUpdates ==
  [id : Ids] \cup [label : Labels] \cup [id : Ids, label : Labels]

\* { ...record, ...updates }
Merge(record, updates) ==
  [f \in DOMAIN record \cup DOMAIN updates |->
     IF f \in DOMAIN updates THEN updates[f] ELSE record[f]]

\* map.set(id, record) and map.delete(id)
MapSet(map, id, record) ==
  [k \in DOMAIN map \cup {id} |-> IF k = id THEN record ELSE map[k]]

MapDelete(map, id) == [k \in DOMAIN map \ {id} |-> map[k]]

StorageInit ==
  /\ call = "storage"
  /\ req = DefaultRequest
  /\ pc = "idle"
  /\ idx = 0
  /\ setDeleteLines = <<>>
  /\ pendErr = <<>>
  /\ pendRet = <<>>
  /\ logs = <<>>
  /\ sent = <<>>
  /\ endCalls = 0
  /\ sh = ShellIdle
  /\ faults = 0
  /\ result = <<>>
  /\ error = <<>>
  /\ rpc = "native"
  /\ helperIn = <<>>
  /\ responses = <<>>
  /\ pty = PtyIdle
  /\ configurations = EmptyMap
  /\ topologyNodes = EmptyMap
  /\ topologyConnections = EmptyMap

StorageFrame ==
  UNCHANGED <<call, req, pc, idx, setDeleteLines, pendErr, pendRet, logs, sent,
              endCalls, sh, faults, result, error, rpc, helperIn, responses,
              pty>>

\* POST /api/configurations: the id is a random UUID, new to the map
createConfiguration ==
  /\ call = "storage"
  /\ \E insertConfig \in InsertConfigurations :
       \E id \in Ids \ DOMAIN configurations :
         configurations' =
           MapSet(configurations, id, Merge(insertConfig, [id |-> id]))
  /\ UNCHANGED <<topologyNodes, topologyConnections>>
  /\ StorageFrame

\* PATCH /api/configurations/:id
updateConfiguration ==
  /\ call = "storage"
  /\ \E id \in Ids : \E updates \in ConfigurationUpdates :
       IF id \notin DOMAIN configurations
       THEN configurations' = configurations
       ELSE configurations' =
              MapSet(configurations, id, Merge(configurations[id], updates))
  /\ UNCHANGED <<topologyNodes, topologyConnections>>
  /\ StorageFrame

\* DELETE /api/configurations/:id
deleteConfiguration ==
  /\ call = "storage"
  /\ \E id \in Ids : configurations' = MapDelete(configurations, id)
  /\ UNCHANGED <<topologyNodes, topologyConnections>>
  /\ StorageFrame

\* POST /api/topology/nodes
createTopologyNode ==
  /\ call = "storage"
  /\ \E insertNode \in InsertTopologyNodes :
       \E id \in Ids \ DOMAIN topologyNodes :
         topologyNodes' =
           MapSet(topologyNodes, id, Merge(insertNode, [id |-> id]))
  /\ UNCHANGED <<configurations, topologyConnections>>
  /\ StorageFrame

\* PATCH /api/topology/nodes/:id
updateTopologyNode ==
  /\ call = "storage"
  /\ \E id \in Ids : \E updates \in TopologyNodeUpdates :
       IF id \notin DOMAIN topologyNodes
       THEN topologyNodes' = topologyNodes
       ELSE topologyNodes' =
              MapSet(topologyNodes, id, Merge(topologyNodes[id], updates))
  /\ UNCHANGED <<configurations, topologyConnections>>
  /\ StorageFrame

\* DELETE /api/topology/nodes/:id: the node alone is removed
deleteTopologyNode ==
  /\ call = "storage"
  /\ \E id \in Ids : topologyNodes' = MapDelete(topologyNodes, id)
  /\ UNCHANGED <<configurations, topologyConnections>>
  /\ StorageFrame

\* POST /api/topology/connections: sourceId and targetId are stored as given
createTopologyConnection ==
  /\ call = "storage"
  /\ \E insertConnection \in InsertTopologyConnections :
       \E id \in Ids \ DOMAIN topologyConnections :
         topologyConnections' =
           MapSet(topologyConnections, id, Merge(insertConnection, [id |-> id]))
  /\ UNCHANGED <<configurations, topologyNodes>>
  /\ StorageFrame

\* DELETE /api/topology/connections/:id
deleteTopologyConnection ==
  /\ call = "storage"
  /\ \E id \in Ids : topologyConnections' = MapDelete(topologyConnections, id)
  /\ UNCHANGED <<configurations, topologyNodes>>
  /\ StorageFrame

StorageNext ==
  \/ createConfiguration
  \/ updateConfiguration
  \/ deleteConfiguration
  \/ createTopologyNode
  \/ updateTopologyNode
  \/ deleteTopologyNode
  \/ createTopologyConnection
  \/ deleteTopologyConnection

StorageSpec == StorageInit /\ [][StorageNext]_vars

\* ------------------------------------------------------- words of the claims
\* applyVyOSConfig / testSshCommand has settled
Settled == pc \in {"returned", "thrown"}

\* the call threw because the session could not be established
ConnectFailed == pc = "thrown" /\ error = ConnectError

\* the session was established
Connected == pc # "connect" /\ ~ConnectFailed

\* c carries a part that is the word w (a part of the batch script)
Names(c, w) == \E k \in DOMAIN c.text : c.text[k] = w

IsScriptExec(c) == c.via = "exec" /\ c.text[1] = "vbash -ic "

\* c hands the command w to the device: as the wrapper's argument, as a line
\* written to the shell, or as a part of the batch script
Issues(c, w) ==
  \/ c = Exec(WrapperCommand(<<w>>))
  \/ c = Write(<<w>>)
  \/ IsScriptExec(c) /\ Names(c, w)

Issued(w) == \E k \in DOMAIN sent : Issues(sent[k], w)

ScriptStarts == {k \in DOMAIN sent : IsScriptExec(sent[k])}

WrapperPcs == {"begin", "line", "compare", "discard", "commit", "save", "end"}

C2_DryRunNeverCommitsOrSaves ==
  (call = "apply" /\ req.dryRun) => ~Issued("commit") /\ ~Issued("save")

\* a dry run asking for commit and save in which all three strategies have
\* sent their commands
C2_DryRunThroughAllStrategies ==
  /\ call = "apply" /\ req.dryRun /\ req.commit /\ req.save
  /\ Settled
  /\ \E k \in DOMAIN sent : sent[k] = Exec(WrapperCommand(<<"discard">>))
  /\ \E k \in DOMAIN sent : sent[k] = Write(<<"discard">>)
  /\ ScriptStarts # {}

\* C3: whenever apply returns applied = true, a commit command was handed to
\* the device during the call.
C3_AppliedImpliesCommitIssued ==
  call = "apply" =>
    \A k \in DOMAIN result : result[k].applied => Issued("commit")

\* C4: once connected, when the wrapper strategy fails, at whatever step and
\* for whatever reason, the interactive session is started next on the same,
\* still open, session: the wrapper strategy is left only by a successful
\* return or into the interactive session, and no error other than the
\* connection's reaches the caller without the interactive session having been
\* requested.
C4_WrapperFailureTriesInteractive ==
  /\ []((call = "apply" /\ pc = "thrown" /\ ~ConnectFailed) => sh.cb # "none")
  /\ [][(pc \in WrapperPcs /\ pc' \notin WrapperPcs) =>
          \/ pc' = "returned" /\ pendErr = <<>>
          \/ /\ pc' = "shell"
             /\ sh'.cb = "pending" /\ sh'.timer = "armed"
             /\ endCalls' = 0]_vars

\* a directive was rejected, 'end' has run, and the shell is being requested
C4_InteractiveAfterRejectedDirective ==
  /\ call = "apply" /\ pc = "shell" /\ sh.cb = "pending"
  /\ faults = 1
  /\ Len(sent) >= 3
  /\ sent[Len(sent)] = Exec(WrapperCommand(<<"end">>))

\* C5: when the session cannot be established, no strategy sends a command
\* and none requests a shell, the helper is spawned at most once, and once the
\* route has moved on it was spawned exactly once with a document that reads
\* back as the validated request (configuration, commit, save, dryRun).
C5_ConnectFailureGoesToHelperOnly ==
  (call = "apply" /\ ConnectFailed) =>
    /\ sent = <<>>
    /\ sh.cb = "none"
    /\ Len(helperIn) <= 1
    /\ rpc # "native" => (Len(helperIn) = 1 /\ JsonParse(helperIn[1]) = req)

\* a dry run of the longest text whose connection failed and whose helper
\* has answered
C5_HelperAnsweredAfterConnectFailure ==
  /\ call = "apply" /\ ConnectFailed
  /\ req.dryRun /\ req.configuration = LongestConfiguration
  /\ rpc = "done" /\ Len(helperIn) = 1

\* C6: the helper is spawned only when the session could not be established.
C6_HelperOnlyOnConnectFailure ==
  helperIn # <<>> => ConnectFailed

\* C7 as the specification states it: the batch script is never started by an
\* apply call.
C7_BatchScriptNeverStarted ==
  call = "apply" => ScriptStarts = {}

\* C7, amended: a failure of the interactive session starts the batch script,
\* once, on the same session; the interactive session is left only by success
\* or into the batch script, and an apply call throws only from the connection
\* or from the batch script.
C7_InteractiveFailureStartsBatchScript ==
  [][/\ (pc = "shell" /\ pc' # "shell") =>
          \/ pc' = "returned" /\ sh'.done
          \/ /\ pc' = "script"
             /\ endCalls' = 0
             /\ Len(sent') = Len(sent) + 1
             /\ IsScriptExec(sent'[Len(sent')])
     /\ (call = "apply" /\ pc # "thrown" /\ pc' = "thrown") =>
          pc \in {"connect", "script"}
     /\ Cardinality({k \in DOMAIN sent' : IsScriptExec(sent'[k])}) <= 1]_vars

\* the channel closed before the end marker and the batch script is running
C7_BatchScriptAfterShellClosed ==
  /\ call = "apply" /\ pc = "script"
  /\ sh.closed /\ ~sh.done
  /\ ScriptStarts # {}

\* C8: conn.end() is called at most once, never while a strategy is still
\* running, and exactly once by the time a call that got its session has
\* settled: applyVyOSConfig returning from any strategy or throwing after all
\* of them, and testSshCommand after its command completed or timed out.
C8_SessionEndedExactlyOnce ==
  /\ endCalls <= 1
  /\ endCalls = 1 => Settled
  /\ (Settled /\ Connected) => endCalls = 1

\* every strategy of an apply call failed and the session is ended
C8_EndedAfterAllStrategiesFailed ==
  /\ call = "apply" /\ pc = "thrown" /\ endCalls = 1
  /\ sh.cb = "open" /\ ScriptStarts # {}

\* C9: every call of applyVyOSConfig settles, also when the device answers
\* nothing after the connection: each wait is ended by its own timer.
C9_ApplyEventuallySettles ==
  call = "apply" => <>Settled

\* the device answered no command, opened no shell and closed nothing, and the
\* call has thrown
C9_SilentDeviceSettled ==
  /\ call = "apply" /\ pc = "thrown" /\ faults = 0
  /\ sh.cb = "pending" /\ sh.timer = "fired"
  /\ Len(sent) = 2

\* C10: when the connected strategies have all failed, every failure response
\* of the apply endpoint carries the logs accumulated by the call.
C10_FailureCarriesAccumulatedLogs ==
  (call = "apply" /\ pc = "thrown" /\ ~ConnectFailed) =>
    \A k \in DOMAIN responses :
      responses[k].status # 200 =>
        /\ "logs" \in DOMAIN responses[k].body
        /\ \A j \in DOMAIN logs :
             \E i \in DOMAIN responses[k].body.logs :
               responses[k].body.logs[i] = logs[j]

\* the flags a successful result must carry, as a function of the request
FlagsOf(r) ==
  [applied |-> ~r.dryRun, commit |-> r.commit /\ ~r.dryRun,
   saved |-> r.save /\ ~r.dryRun, dryRun |-> r.dryRun]

\* C11: the flags of every result applyVyOSConfig returns are determined by
\* the request alone (applied = not dryRun, commit = commit and not dryRun,
\* saved = save and not dryRun, dryRun = dryRun), whichever of the wrapper, the
\* interactive session and the batch script produced it.
C11_ResultFlagsFollowRequest ==
  call = "apply" => \A k \in DOMAIN result : result[k] = FlagsOf(req)

\* the wrapper strategy succeeded for a request that asks for a save without
\* a commit
C11_WrapperSavedWithoutCommit ==
  /\ call = "apply" /\ pc = "returned" /\ sh.cb = "none"
  /\ ~req.dryRun /\ ~req.commit /\ req.save
  /\ result # <<>>

\* every command so far was answered with a clean exit in time: the device
\* produced no anomaly, and the logs hold nothing but the opening line and
\* the output of the commands (no failure note of a strategy or of 'end')
DeviceAcceptedAll ==
  /\ faults = 0
  /\ \A k \in DOMAIN logs : k = 1 \/ logs[k] = Trim(CleanClose.stdout)

\* the commands of one complete wrapper run of request r
WrapperRun(r) ==
  LET cmds == << <<"begin">> >>
              \o FilterLines(SplitLines(r.configuration))
              \o (IF r.commit THEN << <<"commit">> >> ELSE <<>>)
              \o (IF r.save THEN << <<"save">> >> ELSE <<>>)
              \o << <<"end">> >>
  IN [k \in 1..Len(cmds) |-> Exec(WrapperCommand(cmds[k]))]

\* C12: when the device accepts every command, an apply that is no dry run
\* returns from the wrapper strategy alone, having issued exactly begin, the
\* filtered directives once each in input order, commit if requested, save if
\* requested, and end; no blank line and no comment line is issued; the result
\* is applied = true, commit and saved as requested, dryRun = false.
C12_AcceptingDeviceWrapperOnly ==
  (call = "apply" /\ ~req.dryRun /\ pc = "returned" /\ DeviceAcceptedAll) =>
    /\ sent = WrapperRun(req)
    /\ \A k \in DOMAIN sent :
         /\ Len(sent[k].text) >= 2
         /\ sent[k].text[2] \notin Whitespace \cup {"#"}
    /\ sh = ShellIdle
    /\ result = <<[applied |-> TRUE, commit |-> req.commit, saved |-> req.save,
                   dryRun |-> FALSE]>>

\* the longest text, with its comment line, applied with commit and save:
\* six commands, two of them directives
C12_LongestTextApplied ==
  /\ call = "apply" /\ ~req.dryRun /\ req.commit /\ req.save
  /\ req.configuration = LongestConfiguration
  /\ pc = "returned" /\ DeviceAcceptedAll
  /\ Len(sent) = 6

\* Filtering as the specification words it, line by line: strip the
\* whitespace at both ends, keep the line when it begins with set or delete
\* followed by whitespace.
RECURSIVE StripStart(_)
StripStart(s) ==
  IF s # <<>> /\ Head(s) \in Whitespace THEN StripStart(Tail(s)) ELSE s

RECURSIVE StripEnd(_)
StripEnd(s) ==
  IF s # <<>> /\ s[Len(s)] \in Whitespace
  THEN StripEnd(SubSeq(s, 1, Len(s) - 1)) ELSE s

Strip(s) == StripEnd(StripStart(s))

IsBlank(l) == \A k \in DOMAIN l : l[k] \in Whitespace

IsComment(l) == Strip(l) # <<>> /\ Head(Strip(l)) = "#"

RECURSIVE Kept(_)
Kept(lines) ==
  IF lines = <<>> THEN <<>>
  ELSE LET l == Strip(Head(lines))
       IN (IF /\ ~IsBlank(Head(lines)) /\ ~IsComment(Head(lines))
              /\ Head(l) \in {"set", "delete"}
              /\ Len(l) >= 2
              /\ l[2] \in Whitespace
           THEN <<l>> ELSE <<>>)
          \o Kept(Tail(lines))

\* C13: for every sequence of lines, the filtered lines are exactly the
\* stripped set/delete lines of the input, in their order and as often as they
\* occur (so no blank and no comment line is among them), and filtering the
\* filtered lines again changes nothing.
C13_FilteringIdempotentAndOrderPreserving ==
  /\ pc = "filtered" =>
       /\ setDeleteLines = Kept(SplitLines(req.configuration))
       /\ \A k \in DOMAIN setDeleteLines :
            ~IsBlank(setDeleteLines[k]) /\ ~IsComment(setDeleteLines[k])
  /\ pc = "refiltered" =>
       setDeleteLines = FilterLines(SplitLines(req.configuration))

\* a text with a repeated directive, a padded directive and a comment, after
\* the second filtering: the padded line stripped, both copies kept
C13_RepeatedAndPaddedKept ==
  /\ pc = "refiltered"
  /\ SplitLines(req.configuration)
       = << <<"set", " ", "a">>, <<" ", "delete", " ", "b", " ">>,
            <<"set", " ", "a">> >>
  /\ setDeleteLines
       = << <<"set", " ", "a">>, <<"delete", " ", "b">>, <<"set", " ", "a">> >>

\* the directives of the request, as the specification words the filtering
DirectivesOf(r) == Kept(SplitLines(r.configuration))

StartsDirective(t) == t # <<>> /\ Head(t) \in {"set", "delete"}

\* the argument the wrapper was given by command c / the line written by c
WrapperArg(c) == Tail(c.text)
WrittenLine(c) == SubSeq(c.text, 1, Len(c.text) - 1)

IsWrapperDirective(c) ==
  c.via = "exec" /\ ~IsScriptExec(c) /\ StartsDirective(WrapperArg(c))

IsShellDirective(c) == c.via = "shell" /\ StartsDirective(WrittenLine(c))

\* the directives issued through the wrapper / written to the shell so far
WrapperDirectives ==
  LET cs == SelectSeq(sent, IsWrapperDirective)
  IN [k \in 1..Len(cs) |-> WrapperArg(cs[k])]

ShellDirectives ==
  LET cs == SelectSeq(sent, IsShellDirective)
  IN [k \in 1..Len(cs) |-> WrittenLine(cs[k])]

\* the parts of the batch script carried by command c (the text between the
\* quotes, cut at " && ") and the directives among them
PartsOfScript(c) ==
  LET body == SubSeq(c.text, 3, Len(c.text) - 1)
      at   == {i \in 1..Len(body) : body[i] = " && "}
      cut(k) == CHOOSE i \in at : Cardinality({j \in at : j <= i}) = k
      lo(k) == IF k = 1 THEN 1 ELSE cut(k - 1) + 1
      hi(k) == IF k = Cardinality(at) + 1 THEN Len(body) ELSE cut(k) - 1
  IN [k \in 1..(Cardinality(at) + 1) |-> SubSeq(body, lo(k), hi(k))]

ScriptDirectives(c) == SelectSeq(PartsOfScript(c), StartsDirective)

IsPrefix(s, t) == Len(s) <= Len(t) /\ s = SubSeq(t, 1, Len(s))

\* C14: every strategy attempted in a call works on the same filtered
\* directives: the wrapper issues them from the first on (all of them once it
\* is past its loop), the interactive session writes all of them, and the
\* batch script carries all of them, each in the input's order, however far
\* an earlier strategy got.
C14_StrategiesShareDirectives ==
  call = "apply" =>
    LET d == DirectivesOf(req)
    IN /\ IsPrefix(WrapperDirectives, d)
       /\ (\E k \in DOMAIN sent : \E w \in {"compare", "commit", "save"} :
             sent[k] = Exec(WrapperCommand(<<w>>)))
            => WrapperDirectives = d
       /\ sh.cb = "open" => ShellDirectives = d
       /\ \A k \in ScriptStarts : ScriptDirectives(sent[k]) = d

\* the wrapper got through one of two directives, then the interactive
\* session wrote its script and the batch script was started
C14_AllThreeAfterPartialWrapper ==
  /\ call = "apply" /\ Len(DirectivesOf(req)) = 2
  /\ Len(WrapperDirectives) = 1
  /\ sh.cb = "open" /\ Len(ShellDirectives) = 2
  /\ ScriptStarts # {}

\* the positions in sent of the wrapper's 'end' / of any wrapper command
EndPositions == {k \in DOMAIN sent : sent[k] = Exec(WrapperCommand(<<"end">>))}

WrapperPositions ==
  {k \in DOMAIN sent : sent[k].via = "exec" /\ ~IsScriptExec(sent[k])}

\* C15: in the wrapper attempt of an apply call 'end' is issued at most once
\* and no wrapper command follows it; a failed 'begin' leaves the attempt
\* without any 'end'; after a successful 'begin' the attempt is left, by the
\* return of the result or by the fallback, only from the wait for 'end',
\* whatever became of the directives, compare, discard, commit or save.
C15_EndOnceAfterBegin ==
  /\ [](call = "apply" =>
          /\ Cardinality(EndPositions) <= 1
          /\ \A e \in EndPositions : \A k \in WrapperPositions : k <= e)
  /\ [][call = "apply" =>
          /\ (pc = "begin" /\ pc' # "begin") =>
               \/ pc' = "shell" /\ EndPositions' = {}
               \/ pc' \in WrapperPcs /\ pendErr' = <<>>
          /\ (pc \in WrapperPcs \ {"begin"} /\ pc' \notin WrapperPcs) =>
               pc = "end" /\ Cardinality(EndPositions) = 1
          /\ (pc \notin WrapperPcs /\ pc # "connect") => EndPositions' = EndPositions
       ]_vars

\* 'commit' failed after the directives were accepted; 'end' was issued and
\* the fallback is starting
C15_EndAfterFailedCommit ==
  /\ call = "apply" /\ pc = "shell" /\ faults = 1
  /\ Cardinality(EndPositions) = 1
  /\ \E k \in DOMAIN sent : sent[k] = Exec(WrapperCommand(<<"commit">>))
  /\ ~Issued("save")

ComparePositions ==
  {k \in DOMAIN sent : sent[k] = Exec(WrapperCommand(<<"compare">>))}

DiscardPositions ==
  {k \in DOMAIN sent : sent[k] = Exec(WrapperCommand(<<"discard">>))}

\* C16: in a dry run whose directives the wrapper accepted, 'compare' is
\* issued once and 'discard' once, directly after it; 'discard' is the very
\* next command whatever the compare's outcome (clean, non-zero exit, error,
\* timeout); and what compare logged is in the logs before anything discard
\* logs, the logs only growing at their end over both steps.
C16_CompareThenAlwaysDiscard ==
  /\ [](call = "apply" =>
          /\ Cardinality(ComparePositions) <= 1
          /\ Cardinality(DiscardPositions) <= 1
          /\ \A d \in DiscardPositions : d - 1 \in ComparePositions
          /\ ComparePositions # {} => req.dryRun)
  /\ [][call = "apply" =>
          /\ (pc = "compare" /\ pc' # "compare") =>
               /\ pc' = "discard"
               /\ sent' = Append(sent, Exec(WrapperCommand(<<"discard">>)))
               /\ IsPrefix(logs, logs')
          /\ (pc = "discard" /\ pc' # "discard") =>
               /\ pc' = "end"
               /\ IsPrefix(logs, logs')
       ]_vars

\* compare was rejected, discard was issued all the same and has settled
C16_DiscardAfterRejectedCompare ==
  /\ call = "apply" /\ req.dryRun /\ pc = "end"
  /\ pendErr # <<>> /\ Head(pendErr) = "compare"
  /\ faults = 1
  /\ DiscardPositions # {}

\* the note the inner catch logs when the wrapper strategy has failed
IsWrapperFailureNote(l) ==
  /\ Len(l) >= 3
  /\ Head(l) = "Wrapper mode failed: "
  /\ l[Len(l)] = "; trying interactive configure"

\* an entry logged by the interactive session: a line of a chunk of output,
\* or a stderr entry
IsStderrEntry(l) == l # <<>> /\ Head(l) = "[stderr] "

IsOutputEntry(l) == \E d \in ShellChunks : \E k \in DOMAIN ChunkLines(d) : ChunkLines(d)[k] = l

IsNewline(t) == t = "\n"
NotNewline(t) == ~IsNewline(t)
NotStderrEntry(l) == ~IsStderrEntry(l)

RECURSIVE Concat(_)
Concat(ls) == IF ls = <<>> THEN <<>> ELSE Head(ls) \o Concat(Tail(ls))

\* C17: the logs only ever grow at their end; and when the wrapper strategy
\* failed and the interactive session then saw its end marker in time (the
\* batch script was not started), apply returns
\* a result (answered with 200 and these logs) whose logs are, in this order:
\* the opening line and the wrapper's transcript, the failure note, and the
\* interactive transcript, whose output lines are the session's output in
\* the order it arrived.
C17_FallbackTranscriptInOrder ==
  /\ [][IsPrefix(logs, logs')]_vars
  /\ []((call = "apply" /\ pc = "returned" /\ sh.done /\ ScriptStarts = {}) =>
          /\ result = <<FlagsOf(req)>>
          /\ \E n \in DOMAIN logs :
               /\ IsWrapperFailureNote(logs[n])
               /\ n >= 2
               /\ logs[1] = <<"Applying via vyatta-cfg-cmd-wrapper (begin/session)">>
               /\ \A k \in 1..(n - 1) :
                    ~IsWrapperFailureNote(logs[k]) /\ ~IsStderrEntry(logs[k])
                    /\ ~IsOutputEntry(logs[k])
               /\ \A k \in (n + 1)..Len(logs) :
                    IsOutputEntry(logs[k]) \/ IsStderrEntry(logs[k])
               /\ Concat(SelectSeq(SubSeq(logs, n + 1, Len(logs)), NotStderrEntry))
                    = SelectSeq(sh.stdout, NotNewline)
          /\ \A k \in DOMAIN responses :
               responses[k].status = 200 /\ responses[k].body.logs = logs)

\* 'begin' exited non-zero, the interactive session saw its marker, and the
\* route has answered
C17_InteractiveSucceededAfterBeginRejected ==
  /\ call = "apply" /\ pc = "returned" /\ sh.done /\ rpc = "done"
  /\ ScriptStarts = {}
  /\ Len(logs) >= 5
  /\ logs[2] = <<"bad">>
  /\ IsWrapperFailureNote(logs[3])
  /\ Includes(logs[3], <<"begin", " failed (", "1", "): ">>)

\* the three kinds of helper outcome, and the three kinds of answer
HelperClass(h) ==
  IF h.out = "json" THEN (IF h.doc.ok THEN "success" ELSE "failure")
  ELSE "protocol"

ResponseClass(resp) ==
  IF resp.status = 200 THEN "success"
  ELSE IF resp.status = 400 THEN "failure"
  ELSE "protocol"

\* C18: when the helper exits, the answer is of the kind of the helper's
\* output and of no other: a result document with ok = true is answered 200
\* with the document's flags and logs; a document with ok = false is answered
\* 400 with the helper's error and logs; empty or unparseable output is
\* answered 500, with no result flags and no logs, so it cannot be taken for
\* either of the others.
C18_HelperOutcomeClassified ==
  [][(rpc = "helper" /\ rpc' = "done") =>
       LET resp == responses'[Len(responses')]
           outs == HelperOutputs(JsonParse(helperIn[Len(helperIn)]))
       IN /\ Len(responses') = Len(responses) + 1
          /\ \E h \in outs : resp = HelperResponse(h)
          /\ \A h \in outs :
               resp = HelperResponse(h) =>
                 /\ ResponseClass(resp) = HelperClass(h)
                 /\ HelperClass(h) = "success" =>
                      /\ resp.body.applied = h.doc.applied
                      /\ resp.body.commit = h.doc.commit
                      /\ resp.body.saved = h.doc.saved
                      /\ resp.body.logs = h.doc.logs
                 /\ HelperClass(h) = "failure" =>
                      /\ resp.body.error = h.doc.error
                      /\ resp.body.logs = h.doc.logs
                 /\ HelperClass(h) = "protocol" =>
                      DOMAIN resp.body \cap {"applied", "logs"} = {}
     ]_vars

\* the helper printed text that is no JSON and the route has answered 500
C18_UnparseableOutputAnswered ==
  /\ call = "apply" /\ rpc = "done" /\ helperIn # <<>>
  /\ responses # <<>>
  /\ responses[1] = HelperResponse([out |-> "text", err |-> <<>>, doc |-> [ok |-> FALSE]])
  /\ responses[1].status = 500

\* C19: a testSshCommand call uses the session alone: once connected it has
\* issued exactly one command, its command, and never another (no retry); it
\* never issues a wrapper command, requests a shell, starts the batch script
\* or spawns the helper; when the command does not complete before the timer,
\* the call fails with the timeout error; once settled it stays settled.
C19_TestIssuesOneCommandOnly ==
  /\ [](call = "test" =>
          /\ Len(sent) <= 1
          /\ Connected => sent = <<Exec(<<"show version">>)>>
          /\ sh = ShellIdle
          /\ helperIn = <<>>
          /\ logs = <<>>)
  /\ [][call = "test" =>
          /\ (pc = "test" /\ pc' # "test" /\ faults' = faults /\ result' = <<>>) =>
               pc' = "thrown" /\ error' = <<"SSH test timeout">>
          /\ Settled => (pc' = pc /\ sent' = sent)
       ]_vars

\* the command did not complete, the call threw the timeout error and the
\* route answered 500
C19_TestTimedOut ==
  /\ call = "test" /\ pc = "thrown" /\ faults = 0
  /\ error = <<"SSH test timeout">>
  /\ Len(sent) = 1
  /\ rpc = "done" /\ responses[1].status = 500

\* C20: strategies run one after the other on the session: once the batch
\* script has been started, nothing of the interactive session is still to be
\* written, so no line is written to the shell after the script's command.
C20_NothingWrittenAfterScriptStart ==
  call = "apply" =>
    \A k \in ScriptStarts :
      \A j \in DOMAIN sent : j > k => sent[j].via # "shell"

\* C21: in a dry run, once the wrapper has accepted the directives and issued
\* 'compare', no failure of 'compare' or 'discard' starts a fallback strategy.
C21_DryRunFailureNotEscalated ==
  (call = "apply" /\ req.dryRun /\ ComparePositions # {}) =>
    sh.cb = "none" /\ ScriptStarts = {}

IsEndFailureNote(e) == Len(e) > 0 /\ Head(e) = "end failed: "

WrapperFailureNote(e) ==
  <<"Wrapper mode failed: ">> \o e \o <<"; trying interactive configure">>

\* C22: however 'end' settles (clean, rejected, lost or timed out), the step
\* that leaves it returns the pending result when the steps before it
\* succeeded, and otherwise starts the interactive session with the earlier
\* error in the failure note; a failure of 'end' only adds its own log entry.
C22_EndFailureChangesNothing ==
  [][(call = "apply" /\ pc = "end" /\ pc' # "end") =>
       /\ IsPrefix(logs, logs')
       /\ pendErr = <<>> =>
            (pc' = "returned" /\ result' = pendRet /\ error' = <<>>
             /\ sh' = sh)
       /\ pendErr # <<>> =>
            (pc' = "shell" /\ result' = <<>>
             /\ logs'[Len(logs')] = WrapperFailureNote(pendErr))]_vars

C22_ReturnedDespiteFailedEnd ==
  /\ call = "apply" /\ pc = "returned" /\ sh.cb = "none"
  /\ \E i \in 1..Len(logs) : IsEndFailureNote(logs[i])
  /\ result = <<WrapperResult(req)>>

\* C23: when the wait for a directive, for 'commit' or for 'save' ends with a
\* non-zero exit (its stderr logged), with a timeout or with an exec error
\* (nothing logged), the very next command is 'end' and the error is pending;
\* no wrapper command ever follows 'end', so no later directive and no
\* compare, discard, commit or save is issued in the attempt, and 'save' never
\* follows a failed 'commit'.
C23_NothingButEndAfterFailure ==
  /\ [](call = "apply" =>
          \A e \in EndPositions : \A k \in WrapperPositions : k <= e)
  /\ [][(/\ call = "apply" /\ pc \in {"line", "commit", "save"}
         /\ sent' # sent
         /\ (logs' = logs \/ logs' = Append(logs, <<"bad">>))) =>
          /\ pc' = "end"
          /\ pendErr' # <<>> /\ pendRet' = <<>>
          /\ sent' = Append(sent, Exec(WrapperCommand(<<"end">>)))]_vars

C23_EndAfterFailedCommitWithSaveRequested ==
  /\ call = "apply" /\ pc = "end" /\ pendErr # <<>>
  /\ req.commit /\ req.save /\ ~req.dryRun
  /\ Len(setDeleteLines) >= 2
  /\ sent[Len(sent) - 1] = Exec(WrapperCommand(<<"commit">>))

\* C24: the wait of an apply call on the interactive session is left once and
\* never entered again; it is left by the first of: the end marker seen in the
\* accumulated output (success), the channel closed, the timer fired, or the
\* shell refused (each a failure that starts the batch script); an event of
\* the session that comes after the wait was left changes neither where the
\* call stands nor its result, its error, the number of batch scripts started
\* or the ending of the session.
C24_InteractiveSettlesOnce ==
  /\ [][(call = "apply" /\ pc = "shell" /\ pc' # "shell") =>
          \/ /\ pc' = "returned" /\ result' = <<InteractiveResult(req)>>
             /\ sh'.done /\ ~sh.done /\ ~sh.closed /\ sh.timer = "armed"
          \/ /\ pc' = "script" /\ result' = <<>>
             /\ sh'.closed /\ ~sh.closed /\ ~sh'.done /\ sh.timer = "armed"
          \/ /\ pc' = "script" /\ result' = <<>>
             /\ sh'.timer = "fired" /\ sh.timer = "armed"
             /\ ~sh'.done /\ ~sh'.closed
          \/ /\ pc' = "script" /\ result' = <<>>
             /\ sh'.cb = "failed" /\ sh.cb = "pending"]_vars
  /\ [][(call = "apply" /\ sh.cb # "none" /\ pc # "shell") =>
          /\ pc' # "shell"
          /\ sh' # sh =>
               /\ pc' = pc /\ result' = result /\ error' = error
               /\ endCalls' = endCalls
               /\ ScriptStarts' = ScriptStarts]_vars

C24_MarkerAfterTimeoutIgnored ==
  /\ call = "apply" /\ pc = "thrown"
  /\ sh.timer = "fired" /\ sh.done
  /\ result = <<>>

ClosedBeforeCompletion == <<"SSH shell closed before completion">>

\* C25: when the interactive channel closes while the apply call still waits
\* for the end marker, the interactive session fails and the batch script is
\* started with a failure note that carries the stderr text captured so far,
\* or the fixed 'closed before completion' message when none was captured;
\* once the call has returned (the marker was seen) nothing, a close of the
\* channel included, turns the result into a failure.
C25_CloseBeforeMarkerFailsWithStderr ==
  /\ [][(call = "apply" /\ pc = "shell" /\ ~sh.closed /\ sh'.closed) =>
          /\ ~sh.done
          /\ pc' = "script" /\ result' = <<>>
          /\ logs' = logs \o
               << <<"Wrapper mode failed: ">> \o
                    (IF sh.stderr # <<>> THEN sh.stderr
                     ELSE ClosedBeforeCompletion),
                  <<"Fallback: executing script via vbash">> >>]_vars
  /\ [][(call = "apply" /\ pc = "returned") =>
          pc' = "returned" /\ result' = result /\ error' = <<>>]_vars

C25_ClosedAfterErrorOutput ==
  /\ call = "apply" /\ pc = "script"
  /\ sh.closed /\ sh.stderr # <<>> /\ ~sh.done

\* C26: the interactive session of an apply call is marked done exactly when
\* the output accumulated over all chunks contains the end marker, however the
\* chunks cut it; the call never keeps waiting on output that contains the
\* marker, and the step that answers from the session is the arrival of the
\* one chunk that completes the marker.
C26_CompletionSeenInAccumulatedOutput ==
  /\ [](call = "apply" =>
          /\ sh.done <=> Includes(sh.stdout, sentinelEnd)
          /\ pc = "shell" => ~Includes(sh.stdout, sentinelEnd))
  /\ [][(call = "apply" /\ pc = "shell" /\ pc' = "returned") =>
          /\ ~Includes(sh.stdout, sentinelEnd)
          /\ Includes(sh'.stdout, sentinelEnd)
          /\ sh'.chunks = sh.chunks + 1]_vars

C26_MarkerSplitAcrossChunks ==
  /\ call = "apply" /\ pc = "returned" /\ ScriptStarts = {}
  /\ sh.done /\ sh.chunks = 2
  /\ \A d \in ShellChunks : ~Includes(d, sentinelEnd)
  /\ result = <<InteractiveResult(req)>>

IsShellWrite(c) == c.via = "shell"

\* the lines written to the interactive channel so far, without their newline
WrittenLines ==
  LET cs == SelectSeq(sent, IsShellWrite)
  IN [k \in 1..Len(cs) |-> WrittenLine(cs[k])]

Echo(marker) == <<"run echo ">> \o marker

\* what follows the directives in the written script, case by case
ExpectedClosing(r) ==
  IF r.dryRun
  THEN << <<"compare">>, Echo(sentinelCompare), <<"discard">>,
          Echo(sentinelEnd), <<"exit">> >>
  ELSE IF r.commit /\ r.save
  THEN << <<"commit">>, Echo(sentinelCommit), <<"save">>, Echo(sentinelSave),
          Echo(sentinelEnd), <<"exit">> >>
  ELSE IF r.commit
  THEN << <<"commit">>, Echo(sentinelCommit), Echo(sentinelEnd), <<"exit">> >>
  ELSE IF r.save
  THEN << <<"save">>, Echo(sentinelSave), Echo(sentinelEnd), <<"exit">> >>
  ELSE << Echo(sentinelEnd), <<"exit">> >>

\* C27: once the shell of an apply call is open, the lines written to it are
\* 'configure', the filtered directives of the request in their order, and
\* then: for a dry run compare, the compare echo, discard, the end echo, exit;
\* otherwise commit and its echo iff commit is requested, save and its echo
\* iff save is requested, the end echo, exit.  The end echo is written exactly
\* once, after every directive and every commit, save and discard, and nothing
\* is written before the shell is open.
C27_InteractiveScriptOrder ==
  call = "apply" =>
    /\ sh.cb \in {"none", "pending", "failed"} => WrittenLines = <<>>
    /\ sh.cb = "open" =>
         LET w == WrittenLines
             ends == {k \in DOMAIN w : w[k] = Echo(sentinelEnd)}
         IN /\ w = << <<"configure">> >> \o DirectivesOf(req)
                     \o ExpectedClosing(req)
            /\ Cardinality(ends) = 1
            /\ \A e \in ends : \A k \in DOMAIN w :
                 (StartsDirective(w[k])
                  \/ w[k] \in {<<"commit">>, <<"save">>, <<"discard">>})
                   => k < e

C27_FullScriptWritten ==
  /\ call = "apply" /\ sh.cb = "open"
  /\ req.commit /\ req.save /\ ~req.dryRun
  /\ Len(DirectivesOf(req)) >= 2
  /\ Len(WrittenLines) = Len(DirectivesOf(req)) + 7

\* C28: a liveness check whose command produced stderr output (its exit code
\* then being non-zero or indeterminate) never answers ok = true.
C28_StderrWithBadCodeIsFailure ==
  (call = "test" /\ pc = "returned") =>
    \A k \in DOMAIN result : result[k].stderr # <<>> => ~result[k].ok

CommitPositions ==
  {k \in DOMAIN sent : sent[k] = Exec(WrapperCommand(<<"commit">>))}

SavePositions ==
  {k \in DOMAIN sent : sent[k] = Exec(WrapperCommand(<<"save">>))}

\* C29: when the wrapper attempt of an apply call has issued directives, has
\* failed and the fallback has been started, no 'commit' of that attempt had
\* completed successfully on a device that answered every command it
\* answered cleanly (a 'save' issued after the 'commit' shows that the commit
\* had succeeded).
C29_FailedAttemptLeftNothingCommitted ==
  (call = "apply" /\ faults = 0 /\ sh.cb # "none" /\ WrapperDirectives # <<>>) =>
    ~(CommitPositions # {} /\ SavePositions # {})

BeginPositions ==
  {k \in DOMAIN sent : sent[k] = Exec(WrapperCommand(<<"begin">>))}

\* C30: an apply call starts the wrapper attempt at most once, requests the
\* interactive shell at most once and starts the batch script at most once,
\* in this order: the shell is requested only when the wrapper attempt is
\* left with an error (of 'begin', or pending over 'end'), the batch script is
\* started only when the wait on the interactive session is left without its
\* end marker, and the wait on the batch script is left only by the result or
\* the final error; once the call has returned or thrown, no command is
\* issued and no strategy started.
C30_StrategiesInFixedOrderOnce ==
  /\ [](call = "apply" =>
          /\ Cardinality(BeginPositions) <= 1
          /\ Cardinality(ScriptStarts) <= 1
          /\ sh.cb # "none" => BeginPositions # {}
          /\ ScriptStarts # {} => sh.cb # "none")
  /\ [][call = "apply" =>
          /\ (pc = "connect" /\ pc' # "connect") =>
               pc' \in {"begin", "thrown"} /\ sh' = ShellIdle
          /\ (pc \in WrapperPcs /\ pc' \notin WrapperPcs) =>
               \/ /\ pc' = "returned" /\ pc = "end" /\ pendErr = <<>>
                  /\ sh' = ShellIdle /\ sent' = sent
               \/ /\ pc' = "shell" /\ (pc = "begin" \/ pendErr # <<>>)
                  /\ sh = ShellIdle /\ sh'.cb = "pending"
                  /\ IsWrapperFailureNote(logs'[Len(logs')])
                  /\ ScriptStarts' = {}
          /\ (pc = "shell" /\ pc' # "shell") =>
               \/ pc' = "returned" /\ sh'.done /\ ScriptStarts' = {}
               \/ /\ pc' = "script" /\ ~sh'.done
                  /\ ScriptStarts = {} /\ ScriptStarts' = {Len(sent')}
          /\ (pc = "script" /\ pc' # "script") =>
               /\ pc' \in {"returned", "thrown"}
               /\ sent' = sent
          /\ pc \in {"returned", "thrown"} =>
               pc' = pc /\ sent' = sent /\ sh'.cb = sh.cb]_vars

C30_ThirdStrategySucceeded ==
  /\ call = "apply" /\ pc = "returned"
  /\ BeginPositions = {1}
  /\ sh.cb = "open" /\ ~sh.done
  /\ Cardinality(ScriptStarts) = 1
  /\ result = <<ScriptResult(req)>>

\* C31: whenever an apply or liveness-check call has settled (returned or
\* thrown), conn.end has been called on its client, also when the connection
\* could not be established.
C31_ClientEndedOnEveryExit ==
  pc \in {"returned", "thrown"} => endCalls >= 1

\* C32: in a dry run, once the wrapper attempt has ended after issuing a
\* second directive (the first one was then accepted and is staged on the
\* device), the attempt has issued 'discard'.
C32_DryRunAttemptDiscardsStagedLines ==
  (/\ call = "apply" /\ req.dryRun
   /\ Len(WrapperDirectives) >= 2
   /\ pc \notin WrapperPcs) =>
    DiscardPositions # {}

\* the line that echoes the end marker, as written to the channel
EndEchoLine == Write(<<"run echo ">> \o sentinelEnd)

\* C33: when the interactive session has reported completion, the device has
\* carried out every line written before the end-marker echo (commit and save
\* among them).
C33_CompletionOnlyAfterDeviceProcessed ==
  (call = "session" /\ pc = "returned") =>
    \A k \in DOMAIN sent : sent[k] = EndEchoLine => pty.processed >= k - 1

\* C34: when the handling of a POST /api/routers/apply request has come to
\* its end, exactly one response has been sent (and never more than one
\* before that).
C34_ExactlyOneResponse ==
  call = "apply" =>
    /\ Len(responses) <= 1
    /\ rpc \in {"done", "crashed"} => Len(responses) = 1

\* the lines the data handler logs for the chunks the channel can deliver
ChunkLogEntries ==
  UNION {{ChunkLines(d)[i] : i \in DOMAIN ChunkLines(d)} : d \in ShellChunks}

\* C35: once the interactive session of an apply call has failed and the
\* batch script has been announced in the logs, no output of the interactive
\* channel is logged any more: no entry after the announcement is a line of
\* channel output.
C35_NoInteractiveLogAfterFailure ==
  call = "apply" =>
    \A k \in DOMAIN logs :
      logs[k] = <<"Fallback: executing script via vbash">> =>
        \A j \in DOMAIN logs : j > k => logs[j] \notin ChunkLogEntries

\* C36: in every map of the storage, each record is stored under its own id.
C36_StoredIdEqualsKey ==
  call = "storage" =>
    /\ \A k \in DOMAIN configurations : configurations[k].id = k
    /\ \A k \in DOMAIN topologyNodes : topologyNodes[k].id = k
    /\ \A k \in DOMAIN topologyConnections : topologyConnections[k].id = k

\* C37: the sourceId and the targetId of every stored topology connection are
\* ids of stored topology nodes.
C37_ConnectionsReferToStoredNodes ==
  call = "storage" =>
    \A k \in DOMAIN topologyConnections :
      /\ topologyConnections[k].sourceId \in DOMAIN topologyNodes
      /\ topologyConnections[k].targetId \in DOMAIN topologyNodes

OtherMarkers == {sentinelCommit, sentinelSave, sentinelCompare}

\* C38: the four markers of an interactive session, all built on the same
\* timestamp, are pairwise different and none of the other three contains the
\* end marker; the session is marked done only when its accumulated output
\* contains the end marker, so output that holds only the commit, save or
\* compare marker does not complete it.
C38_MarkersDistinct ==
  /\ Cardinality(OtherMarkers \cup {sentinelEnd}) = 4
  /\ \A m \in OtherMarkers : ~Includes(m, sentinelEnd)
  /\ call = "session" =>
       /\ sh.done => Includes(sh.stdout, sentinelEnd)
       /\ (~Includes(sh.stdout, sentinelEnd)) => pc = "shell"

C38_CommitMarkerPrintedNotDone ==
  /\ call = "session" /\ pc = "shell" /\ ~sh.done
  /\ req.commit /\ ~req.dryRun
  /\ \E k \in DOMAIN sent :
       /\ sent[k] = Write(<<"run echo ">> \o sentinelCommit)
       /\ pty.processed >= k
  /\ Includes(sh.stdout, sentinelCommit)

====
